---- MODULE Spec2Model ----
(***************************************************************************)
(* A model of PhysPar (src/PhysPar.py): the physics extractor that walks   *)
(* the frames of a decoded replay (get_physics), and the queries that read *)
(* its result (get_spawnframe, find_goals, find_kickoffs, poss_intervals,  *)
(* create_feature).                                                        *)
(*                                                                         *)
(* A replication is [actor_id, kind, class_name, updated]; kind is         *)
(* "spawned" or "updated"; an entry of updated is [id, rigid_body_state,   *)
(* team].  A python dict is a function; the insertion order of the keys of *)
(* the physics dict, which find_goals iterates, is kept in `order`.        *)
(* A python None is the record None.                                       *)
(***************************************************************************)
EXTENDS Integers, Sequences, FiniteSets, TLC

VARIABLES
    frames,          \* data['content']['body']['frames']: Seq of Seq of replications
    update_frames,   \* self.update_frames: the key_frames' frame numbers
    marks,           \* data['content']['body']['marks']: Seq of [frame, value]
    pc,              \* "load", "walk", "failed", "ready", "kickoffs"
    i,               \* get_physics: the frame index of the walk
    update_pointer,  \* get_physics: index into update_frames (0-based)
    ball_id,         \* get_physics: actor ids of the ball in the resolved epoch
    car_ids,         \* get_physics: actor ids of the cars in the resolved epoch
    teams,           \* get_physics: team -> list of car actor ids
    physics,         \* get_physics' output, self.physics once returned
    order,           \* insertion order of the keys (frames) of physics
    call,            \* the last query made of the constructed object
    ret,             \* what that query returned or raised
    goal_frames,     \* find_kickoffs: the goal frames still to scan, current first
    window,          \* find_kickoffs: the scan position
    cars_reset,      \* find_kickoffs: whether the reset window was seen
    kickoffs         \* find_kickoffs: output, Seq of <<goal_frame, window>>

vars == <<frames, update_frames, marks, pc, i, update_pointer, ball_id, car_ids,
          teams, physics, order, call, ret, goal_frames, window, cars_reset, kickoffs>>

traceVars == <<frames, update_frames, marks>>
walkVars == <<i, update_pointer, ball_id, car_ids, teams, physics, order>>
scanVars == <<goal_frames, window, cars_reset, kickoffs>>

----------------------------------------------------------------------------
(* Program constants *)

GOAL_Y == 510000
PHYS_ID == 42
COLOR_ID == 66
TEAM_SIZE == 3
MAX_GAP == 5
KICKOFF_WINDOW == 10
ATTACK_LINE == 170000
FEATURE_LEN == 91
SLOT_LEN == 13

BallClass == "TAGame.Ball_TA"
CarClass == "TAGame.Car_TA"

None == [none |-> TRUE]

----------------------------------------------------------------------------
(* Helpers over python values *)

Max(S) == CHOOSE m \in S : \A n \in S : n <= m
Min(S) == CHOOSE m \in S : \A n \in S : m <= n
Abs(n) == IF n < 0 THEN -n ELSE n
Range(s) == {s[k] : k \in 1..Len(s)}

RECURSIVE Sorted(_)
Sorted(S) == IF S = {} THEN <<>> ELSE <<Min(S)>> \o Sorted(S \ {Min(S)})

NumFrames == Len(frames)
EmptyDict == [k \in {} |-> None]
DictPut(d, key, v) == [k \in DOMAIN d \cup {key} |-> IF k = key THEN v ELSE d[k]]

----------------------------------------------------------------------------
(* Identity resolver *)

\* get_spawnframe with the update frames strictly before frame (x < frame)
get_spawnframe_strict(frame) ==
    IF frame < 0 THEN [kind |-> "ValueError", msg |-> "frame must be greater than 0"]
    ELSE LET le == {x \in Range(update_frames) : x < frame}
         IN IF le = {} THEN [kind |-> "ValueError", msg |-> "max() arg is an empty sequence"]
            ELSE [kind |-> "int", val |-> Max(le)]

\* get_spawnframe: the largest update frame <= frame; ValueError for frame < 0
\* and (max of an empty list) when no update frame is <= frame.
get_spawnframe(frame) ==
    IF frame < 0 THEN [kind |-> "ValueError", msg |-> "frame must be greater than 0"]
    ELSE LET le == {x \in Range(update_frames) : x <= frame}
         IN IF le = {} THEN [kind |-> "ValueError", msg |-> "max() arg is an empty sequence"]
            ELSE [kind |-> "int", val |-> Max(le)]

\* data['content']['body']['objects']: the class names the replay knows
objects == {BallClass, CarClass}

\* frames[index] of a python list: a negative index counts from the end
FrameAt(index) == IF index < 0 THEN NumFrames + index ELSE index

\* find_ids(spawnframe): actor id -> class name of the spawn replications of
\* frame spawnframe; a later spawn of the same actor id overwrites an earlier
\* one.  KeyError for a frame that is no update frame (lines 37-38), IndexError
\* for an update frame the trace does not hold (line 41).
find_ids(spawnframe) ==
    IF spawnframe \notin Range(update_frames)
    THEN [kind |-> "KeyError", msg |-> "spawnframe not a spawn frame"]
    ELSE IF FrameAt(spawnframe) \notin 0..(NumFrames - 1)
    THEN [kind |-> "IndexError", msg |-> "list index out of range"]
    ELSE LET reps == frames[FrameAt(spawnframe) + 1]
             spawns == {k \in 1..Len(reps) : reps[k].kind = "spawned"}
             actors == {reps[k].actor_id : k \in spawns}
         IN [kind |-> "dict",
             val |-> [a \in actors |->
                        reps[Max({k \in spawns : reps[k].actor_id = a})].class_name]]

\* get_ids(obj, spawnframe=...): the ascending actor ids spawned as obj at
\* spawnframe; KeyError for an obj the replay does not know (lines 56-57).
get_ids(obj, spawnframe) ==
    IF obj \notin objects THEN [kind |-> "KeyError", msg |-> "object not found"]
    ELSE LET helper == find_ids(spawnframe)
         IN IF helper.kind # "dict" THEN helper
            ELSE [kind |-> "list",
                  val |-> Sorted({x \in DOMAIN helper.val : helper.val[x] = obj})]

\* get_ids(obj, frame=...), lines 59-60: frame overrides spawnframe
get_ids_frame(obj, frame) ==
    IF obj \notin objects THEN [kind |-> "KeyError", msg |-> "object not found"]
    ELSE LET spawnframe == get_spawnframe(frame)
         IN IF spawnframe.kind # "int" THEN spawnframe ELSE get_ids(obj, spawnframe.val)

\* find_teams, lines 92-95: the team-paint entries of one replication append
\* its actor id to the team they name; teams has the keys 0 and 1 only, a
\* third team raises KeyError.
RECURSIVE TeamEntries(_, _, _)
TeamEntries(t, actor, updated) ==
    IF updated = <<>> THEN [kind |-> "teams", val |-> t]
    ELSE LET entry == Head(updated)
         IN IF entry.id # COLOR_ID THEN TeamEntries(t, actor, Tail(updated))
            ELSE IF entry.team \notin {0, 1} THEN [kind |-> "KeyError", key |-> entry.team]
            ELSE TeamEntries([t EXCEPT ![entry.team] = Append(@, actor)], actor,
                             Tail(updated))

\* find_teams without the check of line 88: any painted actor is listed
RECURSIVE TeamReplications_any_actor(_, _, _)
TeamReplications_any_actor(t, cars, reps) ==
    IF reps = <<>> THEN [kind |-> "teams", val |-> t]
    ELSE LET replication == Head(reps)
         IN IF replication.kind = "spawned"
            THEN TeamReplications_any_actor(t, cars, Tail(reps))
            ELSE LET t1 == TeamEntries(t, replication.actor_id, replication.updated)
                 IN IF t1.kind # "teams" THEN t1
                    ELSE TeamReplications_any_actor(t1.val, cars, Tail(reps))

\* find_teams, lines 85-95: the replications of the spawn frame in order.
RECURSIVE TeamReplications(_, _, _)
TeamReplications(t, cars, reps) ==
    IF reps = <<>> THEN [kind |-> "teams", val |-> t]
    ELSE LET replication == Head(reps)
         IN IF replication.kind = "spawned" \/ replication.actor_id \notin Range(cars)
            THEN TeamReplications(t, cars, Tail(reps))
            ELSE LET t1 == TeamEntries(t, replication.actor_id, replication.updated)
                 IN IF t1.kind # "teams" THEN t1
                    ELSE TeamReplications(t1.val, cars, Tail(reps))

\* find_teams, lines 83-96 for one update frame: {0: [...], 1: [...]}
TeamsOfUpdate(update) ==
    LET cars == get_ids(CarClass, update)
    IN IF cars.kind # "list" THEN cars
       ELSE TeamReplications([t \in {0, 1} |-> <<>>], cars.val,
                             frames[FrameAt(update) + 1])

\* find_teams(spawnframe=...): the teams of one update frame; KeyError for a
\* frame that is no update frame (lines 78-79).
find_teams(spawnframe) ==
    IF spawnframe \notin Range(update_frames)
    THEN [kind |-> "KeyError", msg |-> "spawnframe not in updates"]
    ELSE TeamsOfUpdate(spawnframe)

\* find_teams(frame=...), lines 75-76: frame overrides spawnframe
find_teams_frame(frame) ==
    LET spawnframe == get_spawnframe(frame)
    IN IF spawnframe.kind # "int" THEN spawnframe ELSE find_teams(spawnframe.val)

\* find_teams(), lines 82-96 and 100: the update frames from the k-th on, in
\* their order, into output; the first one that raises ends the call.
RECURSIVE TeamsOfUpdates(_, _)
TeamsOfUpdates(output, k) ==
    IF k > Len(update_frames) THEN [kind |-> "dict", val |-> output]
    ELSE LET t == TeamsOfUpdate(update_frames[k])
         IN IF t.kind # "teams" THEN t
            ELSE TeamsOfUpdates(DictPut(output, update_frames[k], t.val), k + 1)

find_teams_all == TeamsOfUpdates(EmptyDict, 1)

----------------------------------------------------------------------------
(* Physics extractor *)

BallKey == [c |-> "b", actor_id |-> 0]
CarKey(team, actor_id) == [c |-> IF team = 1 THEN "1" ELSE "0", actor_id |-> actor_id]

\* output.get(f, {}).get(key, {}) is truthy
HasKey(output, f, key) ==
    /\ f >= 0
    /\ f \in DOMAIN output
    /\ key \in DOMAIN output[f]

\* lines 139-142: the first entry with the physics id, or None
RECURSIVE FirstPhys(_)
FirstPhys(updated) ==
    IF updated = <<>> THEN None
    ELSE IF Head(updated).id # PHYS_ID THEN FirstPhys(Tail(updated))
    ELSE Head(updated).rigid_body_state

\* lines 164-171: the snapshot kept of a rigid body state
Snapshot(phys) ==
    [angular_velocity |-> [x |-> phys.angular_velocity.x, y |-> phys.angular_velocity.y,
                           z |-> phys.angular_velocity.z],
     linear_velocity |-> [x |-> phys.linear_velocity.x, y |-> phys.linear_velocity.y,
                          z |-> phys.linear_velocity.z],
     location |-> [x |-> phys.location.x, y |-> phys.location.y, z |-> phys.location.z],
     rotation |-> [x |-> phys.rotation.quaternion.x, y |-> phys.rotation.quaternion.y,
                   z |-> phys.rotation.quaternion.z, w |-> phys.rotation.quaternion.w]]

\* lines 176-181: the while loop; the number of frames to back-fill, 0 when the
\* loop ends without finding an earlier snapshot of key.
RECURSIVE NumMissing(_, _, _, _)
NumMissing(output, f, key, num_missing) ==
    IF ~(num_missing < MAX_GAP) THEN 0
    ELSE IF ~HasKey(output, f - num_missing, key)
         THEN NumMissing(output, f, key, num_missing + 1)
    ELSE num_missing - 1

\* lines 182-187: for n in range(num_missing), from n on
RECURSIVE BackFill(_, _, _, _, _)
BackFill(st, f, key, n, num_missing) ==
    IF n >= num_missing THEN st
    ELSE LET interp == f - 1 - n
             isNew == DOMAIN st.output[interp] = {}
             st1 == [output |-> [st.output EXCEPT
                                   ![interp] = DictPut(@, key, st.output[f][key])],
                     order |-> IF isNew THEN Append(st.order, interp) ELSE st.order]
         IN BackFill(st1, f, key, n + 1, num_missing)

\* lines 174-188
Interpolate(st, f, key) ==
    IF f = 0 \/ HasKey(st.output, f - 1, key) THEN st
    ELSE BackFill(st, f, key, 0, NumMissing(st.output, f, key, 1))

\* lines 129-188: one replication of frame f
ProcessReplication(st, f, replication, b_id, c_ids, tms) ==
    IF replication.kind = "spawned" THEN st
    ELSE IF replication.actor_id \notin (Range(b_id) \cup Range(c_ids)) THEN st
    ELSE LET phys == FirstPhys(replication.updated) IN
         IF phys = None THEN st
         ELSE IF phys.angular_velocity = None \/ phys.linear_velocity = None THEN st
         ELSE LET actor_id == replication.actor_id
                  key == IF actor_id \in Range(b_id) THEN BallKey
                         ELSE CarKey(IF actor_id \in Range(tms[1]) THEN 1 ELSE 0, actor_id)
                  isNew == DOMAIN st.output[f] = {}
                  st1 == [output |-> [st.output EXCEPT
                                        ![f] = DictPut(@, key, Snapshot(phys))],
                          order |-> IF isNew THEN Append(st.order, f) ELSE st.order]
              IN Interpolate(st1, f, key)

\* line 129: the replications of frame f in order
RECURSIVE ProcessFrame(_, _, _, _, _, _)
ProcessFrame(st, f, reps, b_id, c_ids, tms) ==
    IF reps = <<>> THEN st
    ELSE ProcessFrame(ProcessReplication(st, f, Head(reps), b_id, c_ids, tms),
                      f, Tail(reps), b_id, c_ids, tms)

\* line 119: whether the walk resolves a new epoch at frame f
AtBoundary(f, pointer) ==
    /\ pointer # Len(update_frames) - 1
    /\ f = update_frames[pointer + 1]

\* __init__ line 15 and get_physics lines 107-116: the checks and the locals.
\* update_frames[0] of an empty list raises too.
GetPhysicsBegin ==
    /\ pc = "load"
    /\ pc' = IF update_frames = <<>> \/ update_frames[1] # 0 THEN "failed"
             ELSE IF NumFrames = 0 THEN "ready" ELSE "walk"
    /\ UNCHANGED <<traceVars, walkVars, call, ret, scanVars>>

\* get_physics lines 118-188: one frame of the walk, and the return after the
\* last; an identity resolver that raises at a boundary (lines 120-123) ends
\* the construction.
GetPhysicsFrame ==
    /\ pc = "walk"
    /\ LET adv == AtBoundary(i, update_pointer)
           b_id == get_ids(BallClass, update_frames[update_pointer + 1])
           c_ids == get_ids(CarClass, update_frames[update_pointer + 1])
           tms == find_teams(update_frames[update_pointer + 1])
           raised == adv /\ (b_id.kind # "list" \/ c_ids.kind # "list" \/ tms.kind # "teams")
           st == ProcessFrame([output |-> physics, order |-> order], i, frames[i + 1],
                              IF adv THEN b_id.val ELSE ball_id,
                              IF adv THEN c_ids.val ELSE car_ids,
                              IF adv THEN tms.val ELSE teams)
       IN IF raised
          THEN /\ pc' = "failed"
               /\ UNCHANGED walkVars
          ELSE /\ ball_id' = IF adv THEN b_id.val ELSE ball_id
               /\ car_ids' = IF adv THEN c_ids.val ELSE car_ids
               /\ teams' = IF adv THEN tms.val ELSE teams
               /\ update_pointer' = IF adv THEN update_pointer + 1 ELSE update_pointer
               /\ physics' = st.output
               /\ order' = st.order
               /\ i' = i + 1
               /\ pc' = IF i + 1 = NumFrames THEN "ready" ELSE "walk"
    /\ UNCHANGED <<traceVars, call, ret, scanVars>>

\* The values tried for a frame or spawnframe argument
FrameArgs == -1..NumFrames

\* get_ids of the constructed object, with spawnframe=... or frame=...
GetIds ==
    /\ pc = "ready"
    /\ \E obj \in {BallClass, CarClass, "TAGame.Boost_TA"}, n \in FrameArgs,
          arg \in {"spawnframe", "frame"} :
          /\ call' = [op |-> "get_ids", obj |-> obj, arg |-> arg, frame |-> n,
                      scorer |-> -1, threshold |-> <<0, 1>>]
          /\ ret' = IF arg = "frame" THEN get_ids_frame(obj, n) ELSE get_ids(obj, n)
    /\ UNCHANGED <<traceVars, pc, walkVars, scanVars>>

\* find_teams of the constructed object: find_teams(spawnframe=...),
\* find_teams(frame=...) or find_teams()
FindTeams ==
    /\ pc = "ready"
    /\ \E n \in FrameArgs, arg \in {"spawnframe", "frame", "none"} :
          /\ arg = "none" => n = 0
          /\ call' = [op |-> "find_teams", arg |-> arg, frame |-> n, scorer |-> -1,
                      threshold |-> <<0, 1>>]
          /\ ret' = IF arg = "none" THEN find_teams_all
                    ELSE IF arg = "frame" THEN find_teams_frame(n) ELSE find_teams(n)
    /\ UNCHANGED <<traceVars, pc, walkVars, scanVars>>

----------------------------------------------------------------------------
(* Event detector *)

\* A python dict kept as the sequence of its <<key, value>> pairs in insertion
\* order: d[key] = v replaces the value of a key already there, in place.
RECURSIVE DictSet(_, _, _)
DictSet(d, key, v) ==
    IF d = <<>> THEN <<<<key, v>>>>
    ELSE IF Head(d)[1] = key THEN <<<<key, v>>>> \o Tail(d)
    ELSE <<Head(d)>> \o DictSet(Tail(d), key, v)

Keys(d) == [k \in 1..Len(d) |-> d[k][1]]

\* self.physics.get(f) is truthy: frame f is a key of physics
InPhysics(f) == f \in DOMAIN physics /\ DOMAIN physics[f] # {}

\* The values of the marks of the traces, and those that contain 'Goal'
MarkTags == {"Team0Goal", "Team1Goal", "Team0Save", "OwnGoal"}
GoalTags == {"Team0Goal", "Team1Goal", "OwnGoal"}

\* line 199: 'Goal' in mark['value']
IsGoalMark(mark) == mark.value \in GoalTags

\* line 200: the frames of physics, in the dict's order, whose ball lies beyond GOAL_Y
possible_goals ==
    SelectSeq(order, LAMBDA f : /\ BallKey \in DOMAIN physics[f]
                                /\ Abs(physics[f][BallKey].location.y) > GOAL_Y)

\* lines 205-208: the first of goals that is >= frame sets goal_frames[goal]
RECURSIVE FirstGoalFrom(_, _, _, _)
FirstGoalFrom(d, goals, frame, team) ==
    IF goals = <<>> THEN d
    ELSE IF Head(goals) >= frame THEN DictSet(d, Head(goals), team)
    ELSE FirstGoalFrom(d, Tail(goals), frame, team)

\* lines 203-208: the scoring marks in their order
RECURSIVE GoalsOfScores(_, _)
GoalsOfScores(d, scores) ==
    IF scores = <<>> THEN d
    ELSE GoalsOfScores(FirstGoalFrom(d, possible_goals, Head(scores).frame,
                                     IF Head(scores).value = "Team1Goal" THEN 1 ELSE 0),
                       Tail(scores))

\* find_goals: goal frame -> scoring team, as <<frame, team>> pairs
find_goals == GoalsOfScores(<<>>, SelectSeq(marks, IsGoalMark))

FindGoals ==
    /\ pc = "ready"
    /\ call' = [op |-> "find_goals", frame |-> -1, scorer |-> -1, threshold |-> <<0, 1>>]
    /\ ret' = [kind |-> "dict", val |-> find_goals]
    /\ UNCHANGED <<traceVars, pc, walkVars, scanVars>>

GetSpawnframe ==
    /\ pc = "ready"
    /\ \E frame \in FrameArgs :
          /\ call' = [op |-> "get_spawnframe", frame |-> frame, scorer |-> -1,
                      threshold |-> <<0, 1>>]
          /\ ret' = get_spawnframe(frame)
    /\ UNCHANGED <<traceVars, pc, walkVars, scanVars>>

\* line 229 with a window of 9 frames, range(window, window+9)
ResetAt_nine(w) == \A k \in w..(w + KICKOFF_WINDOW - 2) : ~InPhysics(k)

\* line 229: no frame of window .. window+9 has a snapshot
ResetAt(w) == \A k \in w..(w + KICKOFF_WINDOW - 1) : ~InPhysics(k)

\* line 230: every frame of window .. window+9 has a snapshot
FullAt(w) == \A k \in 0..(KICKOFF_WINDOW - 1) : InPhysics(w + k)

\* The windows past the last frame that a scan is followed through
MaxScan == 2

AllButLast(s) == IF s = <<>> THEN <<>> ELSE SubSeq(s, 1, Len(s) - 1)

\* find_kickoffs lines 218-223: the goal frames to scan from, the last goal
\* dropped and frame 0 added, and the first scan set up.
FindKickoffsBegin ==
    /\ pc = "ready"
    /\ pc' = "kickoffs"
    /\ goal_frames' = Append(AllButLast(Keys(find_goals)), 0)
    /\ window' = Head(goal_frames')
    /\ cars_reset' = FALSE
    /\ kickoffs' = <<>>
    /\ call' = [op |-> "find_kickoffs", frame |-> -1, scorer |-> -1, threshold |-> <<0, 1>>]
    /\ ret' = [kind |-> "none"]
    /\ UNCHANGED <<traceVars, walkVars>>

\* find_kickoffs lines 227-234: one turn of the while loop; a found window ends
\* the scan of this goal frame, and the last one returns the output.  No frame
\* from NumFrames on has a snapshot: a scan that gets there turns for ever, and
\* is followed through MaxScan windows.
FindKickoffsStep ==
    /\ pc = "kickoffs"
    /\ window < NumFrames + MaxScan
    /\ LET reset == cars_reset \/ ResetAt(window)
           found == reset /\ FullAt(window)
           output == DictSet(kickoffs, Head(goal_frames), window)
       IN IF ~found
          THEN /\ window' = window + 1
               /\ cars_reset' = reset
               /\ UNCHANGED <<pc, goal_frames, kickoffs, ret>>
          ELSE /\ kickoffs' = output
               /\ goal_frames' = Tail(goal_frames)
               /\ cars_reset' = FALSE
               /\ IF Tail(goal_frames) = <<>>
                  THEN /\ pc' = "ready"
                       /\ ret' = [kind |-> "dict", val |-> output]
                       /\ window' = window + 1
                  ELSE /\ window' = Head(Tail(goal_frames))
                       /\ UNCHANGED <<pc, ret>>
    /\ UNCHANGED <<traceVars, walkVars, call>>

\* The window find_kickoffs stores for a scan started at w, -1 when the scan
\* runs past the last frame, from where no window is full.
RECURSIVE KickoffFrom(_, _)
KickoffFrom(w, reset) ==
    IF w >= NumFrames THEN -1
    ELSE IF (reset \/ ResetAt(w)) /\ FullAt(w) THEN w
    ELSE KickoffFrom(w + 1, reset \/ ResetAt(w))

\* lines 266-270 and 276-283: the attacking predicate of the frames goal down
\* to last_kickoff+1 that hold a ball, nearest to the goal first; the values of
\* a goal of team 1 are negated.
RECURSIVE Together(_, _, _)
Together(frame, last_kickoff, team) ==
    IF frame <= last_kickoff THEN <<>>
    ELSE (IF BallKey \notin DOMAIN physics[frame] THEN <<>>
          ELSE LET sign == IF team = 1 THEN -1 ELSE 1
                   y_location == sign * physics[frame][BallKey].location.y
                   y_velocity == sign * physics[frame][BallKey].linear_velocity.y
               IN <<(y_location > ATTACK_LINE) \/ (y_velocity > 0)>>)
         \o Together(frame - 1, last_kickoff, team)

\* np.cumsum(arr)[k-1]
CumSum(arr, k) == Cardinality({j \in 1..k : arr[j]})

\* percentage[k-1] > threshold, the threshold being the fraction th[1] / th[2]
Exceeds(arr, k, th) == CumSum(arr, k) * th[2] > th[1] * k

\* find_window_size lines 247-255 (0-based index): the first index whose running
\* mean does not exceed the threshold, the last index when all do; ValueError
\* for a threshold out of bounds, and from np.argmin for an empty array.
find_window_size(arr, th) ==
    IF th[1] < 0 \/ th[1] > th[2]
    THEN [kind |-> "ValueError", msg |-> "threshold out of bounds"]
    ELSE IF arr = <<>>
    THEN [kind |-> "ValueError", msg |-> "attempt to get argmin of an empty sequence"]
    ELSE LET fails == {k \in 1..Len(arr) : ~Exceeds(arr, k, th)}
         IN [kind |-> "int", val |-> IF fails = {} THEN Len(arr) - 1 ELSE Min(fails) - 1]

\* lines 261-285: the goals in the order of find_goals; max() of an empty list
\* raises ValueError.
RECURSIVE IntervalsOf(_, _, _)
IntervalsOf(output, goals, th) ==
    IF goals = <<>> THEN [kind |-> "list", val |-> output]
    ELSE LET goal == Head(goals)[1]
             missing == {f \in 0..(Max({g \in DOMAIN physics : InPhysics(g)}) - 1) :
                            ~InPhysics(f) /\ f < goal}
         IN IF missing = {}
            THEN [kind |-> "ValueError", msg |-> "max() arg is an empty sequence"]
            ELSE LET together == Together(goal, Max(missing), Head(goals)[2])
                     size == find_window_size(together, th)
                 IN IF size.kind # "int" THEN size
                    ELSE IntervalsOf(Append(output, <<goal - size.val, goal>>),
                                     Tail(goals), th)

poss_intervals(th) == IntervalsOf(<<>>, find_goals, th)

\* The thresholds tried, as fractions <<numerator, denominator>>
Thresholds == {<<0, 1>>, <<1, 2>>, <<19, 20>>, <<1, 1>>, <<-1, 2>>, <<3, 2>>}

PossIntervals ==
    /\ pc = "ready"
    /\ \E th \in Thresholds :
          /\ call' = [op |-> "poss_intervals", frame |-> -1, scorer |-> -1, threshold |-> th]
          /\ ret' = poss_intervals(th)
    /\ UNCHANGED <<traceVars, pc, walkVars, scanVars>>

----------------------------------------------------------------------------
(* Feature builder *)

\* The scorer argument when it is None
NoScorer == -1

\* get_leaf_nodes with the quaternion's w ahead of x, y, z
get_leaf_nodes_w_first(snap) ==
    <<snap.angular_velocity.x, snap.angular_velocity.y, snap.angular_velocity.z,
      snap.linear_velocity.x, snap.linear_velocity.y, snap.linear_velocity.z,
      snap.location.x, snap.location.y, snap.location.z,
      snap.rotation.w, snap.rotation.x, snap.rotation.y, snap.rotation.z>>

\* get_leaf_nodes(snapshot, val_only=True): the leaves in the order the
\* snapshot dict was filled (lines 164-171)
get_leaf_nodes(snap) ==
    <<snap.angular_velocity.x, snap.angular_velocity.y, snap.angular_velocity.z,
      snap.linear_velocity.x, snap.linear_velocity.y, snap.linear_velocity.z,
      snap.location.x, snap.location.y, snap.location.z,
      snap.rotation.x, snap.rotation.y, snap.rotation.z, snap.rotation.w>>

\* The orders in which python may iterate a set of keys
Orders(S) ==
    {o \in [1..Cardinality(S) -> S] : \A a, b \in 1..Cardinality(S) : o[a] = o[b] => a = b}

\* lines 347-348: the leaves of the items of a sublist, in its order
RECURSIVE LeavesOf(_, _)
LeavesOf(snapshot, items) ==
    IF items = <<>> THEN <<>>
    ELSE get_leaf_nodes(snapshot[Head(items)]) \o LeavesOf(snapshot, Tail(items))

\* lines 347-355 for a team: its cars, then zeros for the missing slots
TeamFeature(snapshot, cars) ==
    LeavesOf(snapshot, cars) \o [k \in 1..(SLOT_LEN * (TEAM_SIZE - Len(cars))) |-> 0]

\* lines 357-361: the length check of the finished vector
Checked(frame_feature) ==
    IF Len(frame_feature) # FEATURE_LEN /\ Len(frame_feature) # FEATURE_LEN + 1
    THEN [kind |-> "None"]
    ELSE [kind |-> "vector", val |-> frame_feature]

RECURSIVE create_feature(_, _)

\* A frame without a ball handled like a crowded one: on to frame + 1
NoBall_next_frame(frame, scorer) == create_feature(frame + 1, scorer)

\* lines 334-336: a frame without a ball
NoBall(frame, scorer) == {[kind |-> "None"]}

\* create_feature(frame, scorer): the results it may give, one per order of
\* iteration of the two sets of cars.  physics[frame] raises KeyError for a
\* frame that is no key of physics.
create_feature(frame, scorer) ==
    IF scorer # NoScorer /\ scorer \notin {0, 1}
    THEN {[kind |-> "ValueError", msg |-> "scorer not a team, should be 0 or 1"]}
    ELSE IF ~InPhysics(frame) THEN {[kind |-> "KeyError", msg |-> "frame"]}
    ELSE LET phys_snapshot == physics[frame]
             team0 == {car \in DOMAIN phys_snapshot : car.c = "0"}
             team1 == {car \in DOMAIN phys_snapshot : car.c = "1"}
             label == IF scorer = NoScorer THEN <<>> ELSE <<scorer>>
         IN IF BallKey \notin DOMAIN phys_snapshot THEN NoBall(frame, scorer)
            ELSE IF Cardinality(team0) > TEAM_SIZE \/ Cardinality(team1) > TEAM_SIZE
            THEN create_feature(frame + 1, scorer)
            ELSE {Checked(label \o get_leaf_nodes(phys_snapshot[BallKey])
                            \o TeamFeature(phys_snapshot, o0)
                            \o TeamFeature(phys_snapshot, o1)) :
                     o0 \in Orders(team0), o1 \in Orders(team1)}

CreateFeature ==
    /\ pc = "ready"
    /\ \E frame \in 0..NumFrames, scorer \in {NoScorer, 0, 2} :
          /\ call' = [op |-> "create_feature", frame |-> frame, scorer |-> scorer,
                      threshold |-> <<0, 1>>]
          /\ ret' \in create_feature(frame, scorer)
    /\ UNCHANGED <<traceVars, pc, walkVars, scanVars>>

----------------------------------------------------------------------------
(* Traces *)

Vec(a, b, c) == [x |-> a, y |-> b, z |-> c]
Quat(a, b, c, d) == [quaternion |-> [x |-> a, y |-> b, z |-> c, w |-> d]]

\* A rigid body state at location.y = locy moving with linear_velocity.y = vely;
\* its other numbers tell the actor (tag) and the field.
Rigid(tag, locy, vely) ==
    [angular_velocity |-> Vec(tag + 1, tag + 2, tag + 3),
     linear_velocity |-> Vec(tag + 4, vely, tag + 6),
     location |-> Vec(tag + 7, locy, tag + 9),
     rotation |-> Quat(tag + 10, tag + 11, tag + 12, tag + 13)]

Spawn(actor, class) ==
    [actor_id |-> actor, kind |-> "spawned", class_name |-> class, updated |-> <<>>]
PhysEntry(rbs) == [id |-> PHYS_ID, rigid_body_state |-> rbs, team |-> -1]
PaintEntry(team) == [id |-> COLOR_ID, rigid_body_state |-> None, team |-> team]
Update(actor, entries) ==
    [actor_id |-> actor, kind |-> "updated", class_name |-> "", updated |-> entries]

RECURSIVE SeqsOf(_, _)
SeqsOf(S, n) == IF n = 0 THEN {<<>>}
                ELSE {Append(s, e) : s \in SeqsOf(S, n - 1), e \in S}

InitWalk ==
    /\ pc = "load"
    /\ i = 0
    /\ update_pointer = 0
    /\ ball_id = <<>>
    /\ car_ids = <<>>
    /\ teams = [t \in {0, 1} |-> <<>>]
    /\ physics = [f \in 0..(NumFrames - 1) |-> EmptyDict]
    /\ order = <<>>
    /\ call = [op |-> "none", frame |-> -1, scorer |-> -1, threshold |-> <<0, 1>>]
    /\ ret = [kind |-> "none"]
    /\ goal_frames = <<>>
    /\ window = 0
    /\ cars_reset = FALSE
    /\ kickoffs = <<>>

(* The gap traces: one ball (actor 1) spawned at frame 0; each frame holds no
   update, one physics update of the ball, or two of them with different
   values. *)
InterpFrames == 7
BallA == Rigid(100, 0, 1)
BallB == Rigid(200, 0, -1)
InterpChoices ==
    {<<>>, <<Update(1, <<PhysEntry(BallA)>>)>>,
     <<Update(1, <<PhysEntry(BallB)>>), Update(1, <<PhysEntry(BallA)>>)>>,
     <<Update(1, <<PhysEntry(BallB)>>)>>}

InitInterp ==
    /\ \E fs \in SeqsOf(InterpChoices, InterpFrames) :
          frames = [fs EXCEPT ![1] = <<Spawn(1, BallClass)>> \o @]
    /\ update_frames = <<0, InterpFrames - 1>>
    /\ marks = <<>>
    /\ InitWalk

NextWalk == GetPhysicsBegin \/ GetPhysicsFrame

SpecInterp == InitInterp /\ [][NextWalk]_vars

(* The goal traces: one ball; each frame holds no update or one update of the
   ball, in midfield or beyond a goal line; up to MaxMarks marks in frame
   order. *)
GoalFrames == 4
MaxMarks == 2
BallMid == Rigid(100, 0, 1)
BallIn0 == Rigid(200, GOAL_Y + 1, 1)
BallIn1 == Rigid(300, -(GOAL_Y + 1), -1)
GoalChoices ==
    {<<>>, <<Update(1, <<PhysEntry(BallMid)>>)>>, <<Update(1, <<PhysEntry(BallIn0)>>)>>,
     <<Update(1, <<PhysEntry(BallIn1)>>)>>}
MarkLists(n) ==
    {ms \in UNION {SeqsOf([frame : 0..(n - 1), value : MarkTags], k) : k \in 0..MaxMarks} :
        \A k \in 1..(Len(ms) - 1) : ms[k].frame <= ms[k + 1].frame}

InitGoals ==
    /\ \E fs \in SeqsOf(GoalChoices, GoalFrames) :
          frames = [fs EXCEPT ![1] = <<Spawn(1, BallClass)>> \o @]
    /\ update_frames = <<0, GoalFrames - 1>>
    /\ marks \in MarkLists(GoalFrames)
    /\ InitWalk

NextGoals == GetPhysicsBegin \/ GetPhysicsFrame \/ FindGoals

SpecGoals == InitGoals /\ [][NextGoals]_vars

(* The possession traces: a ball (actor 1) and a car of team 0 (actor 2).
   ResetLen frames without any update, then a first play frame with or without
   the ball, LeadLen frames with the ball attacking, TailLen frames with the
   ball attacking or not, and a last frame with the ball in the goal or in
   midfield; the car is updated in every play frame.  At most one scoring mark,
   one frame before the last. *)
LeadLen == 4
TailLen == 4
CarPhys == Update(2, <<PhysEntry(Rigid(500, 0, 0))>>)
PlayFrame(ball) == <<Update(1, <<PhysEntry(ball)>>), CarPhys>>
BallAttack == Rigid(100, 0, 1)
BallRetreat == Rigid(100, 0, -1)
SpawnFrame ==
    <<Spawn(1, BallClass), Spawn(2, CarClass), Update(2, <<PaintEntry(0)>>)>>
Repeat(e, n) == [k \in 1..n |-> e]

PossFrames ==
    {<<SpawnFrame>> \o Repeat(<<>>, resetLen - 1) \o <<first>> \o
     Repeat(PlayFrame(BallAttack), LeadLen) \o tail \o <<last>> :
        resetLen \in {KICKOFF_WINDOW - 1, KICKOFF_WINDOW},
        first \in {<<CarPhys>>, PlayFrame(BallAttack)},
        tail \in SeqsOf({PlayFrame(BallAttack), PlayFrame(BallRetreat)}, TailLen),
        last \in {PlayFrame(BallIn0), PlayFrame(BallMid)}}

InitPoss ==
    /\ frames \in PossFrames
    /\ update_frames = <<0, NumFrames - 1>>
    /\ marks \in {<<>>} \cup {<<[frame |-> NumFrames - 2, value |-> v]>> :
                                v \in {"Team0Goal", "Team1Goal"}}
    /\ InitWalk

NextPoss ==
    \/ GetPhysicsBegin
    \/ GetPhysicsFrame
    \/ FindGoals
    \/ FindKickoffsBegin
    \/ FindKickoffsStep
    \/ PossIntervals

\* find_kickoffs runs its loop on: a call that began keeps taking turns.
SpecPoss == InitPoss /\ [][NextPoss]_vars /\ WF_vars(FindKickoffsStep)

(* The feature traces: a ball (actor 1), four cars painted team 0 (actors 2-5)
   and two painted team 1 (actors 6, 7); each frame holds one of a few sets of
   physics updates: none, the ball and a car, a full team 0 with the ball and
   a car of team 1, a team 0 of four, or cars without the ball. *)
FeatureFrames == 3
CarUpdate(actor) == Update(actor, <<PhysEntry(Rigid(100 * actor, actor, -actor))>>)
BallUpdate == Update(1, <<PhysEntry(Rigid(100, 0, 1))>>)
FeatureSpawns ==
    <<Spawn(1, BallClass)>>
    \o [k \in 1..6 |-> Spawn(k + 1, CarClass)]
    \o [k \in 1..6 |-> Update(k + 1, <<PaintEntry(IF k <= 4 THEN 0 ELSE 1)>>)]
FeatureChoices ==
    {<<>>,
     <<BallUpdate, CarUpdate(2)>>,
     <<CarUpdate(6), CarUpdate(3), BallUpdate, CarUpdate(2), CarUpdate(4)>>,
     <<BallUpdate, CarUpdate(2), CarUpdate(3), CarUpdate(4), CarUpdate(5)>>,
     <<CarUpdate(2), CarUpdate(6), CarUpdate(7)>>}

InitFeature ==
    /\ \E fs \in SeqsOf(FeatureChoices, FeatureFrames) :
          frames = [fs EXCEPT ![1] = FeatureSpawns \o @]
    /\ update_frames = <<0, FeatureFrames - 1>>
    /\ marks = <<>>
    /\ InitWalk

NextFeature == GetPhysicsBegin \/ GetPhysicsFrame \/ CreateFeature

SpecFeature == InitFeature /\ [][NextFeature]_vars

(* The epoch traces: every sequence of up to MaxEpochs update frames over the
   frames of the trace, whether or not it starts at 0 or ascends; every frame
   spawns the ball and updates it. *)
EpochFrames == 4
MaxEpochs == 3

InitEpochs ==
    /\ frames = [k \in 1..EpochFrames |-> <<Spawn(1, BallClass), BallUpdate>>]
    /\ update_frames \in UNION {SeqsOf(0..(EpochFrames - 1), n) : n \in 0..MaxEpochs}
    /\ marks = <<>>
    /\ InitWalk

NextEpochs == GetPhysicsBegin \/ GetPhysicsFrame \/ GetSpawnframe \/ GetIds

SpecEpochs == InitEpochs /\ [][NextEpochs]_vars

(* The roster traces: every ascending list of update frames that starts at 0;
   each frame holds one of five sets of replications: a ball
   (actor 1) and two cars painted 0 and 1; the ball as actor 3, car 1 painted 1
   and car 2 not painted, with a paint update of the ball; no spawn but a paint
   update of actor 2; a car painted for both teams; a car painted for a
   team 2.  All carry physics updates of actors 1 to 3. *)
RosterFrames == 3
ActorUpdates == <<BallUpdate, CarUpdate(2), CarUpdate(3)>>
RosterChoices ==
    {<<Spawn(1, BallClass), Spawn(2, CarClass), Spawn(3, CarClass),
       Update(2, <<PaintEntry(0)>>), Update(3, <<PaintEntry(1)>>)>> \o ActorUpdates,
     <<Spawn(3, BallClass), Spawn(1, CarClass), Spawn(2, CarClass),
       Update(1, <<PaintEntry(1)>>), Update(3, <<PaintEntry(0)>>)>> \o ActorUpdates,
     <<Update(2, <<PaintEntry(1)>>)>> \o ActorUpdates,
     <<Spawn(1, BallClass), Spawn(2, CarClass),
       Update(2, <<PaintEntry(0), PaintEntry(1)>>)>> \o ActorUpdates,
     <<Spawn(1, BallClass), Spawn(2, CarClass), Spawn(3, CarClass),
       Update(3, <<PaintEntry(1)>>), Update(2, <<PaintEntry(2)>>)>> \o ActorUpdates}

\* The ascending lists of update frames over n frames that start at 0
RECURSIVE Ascending(_, _)
Ascending(from, n) ==
    IF from >= n THEN {<<>>}
    ELSE {<<>>} \cup UNION {{<<f>> \o rest : rest \in Ascending(f + 1, n)} : f \in from..(n - 1)}

InitRoster ==
    /\ frames \in SeqsOf(RosterChoices, RosterFrames)
    /\ update_frames \in {<<0>> \o rest : rest \in Ascending(1, RosterFrames)}
    /\ marks = <<>>
    /\ InitWalk

NextRoster == GetPhysicsBegin \/ GetPhysicsFrame \/ FindTeams

SpecRoster == InitRoster /\ [][NextRoster]_vars

(* The kickoff traces: KickRuns runs of frames, by turns with the ball in every
   frame and without any update; a run with the ball ends with the ball in the
   goal and starts with a scoring mark. *)
KickRuns == 5
PlayLens == {0, 1, 9, 10}
EmptyLens == {4, 9, 10}

\* The runs k .. n as <<length, whether the ball plays>>, the odd ones of play
RECURSIVE RunLists(_, _)
RunLists(k, n) ==
    IF k > n THEN {<<>>}
    ELSE {<<<<len, k % 2 = 1>>>> \o rest :
             len \in (IF k % 2 = 1 THEN PlayLens ELSE EmptyLens), rest \in RunLists(k + 1, n)}

RunFrames(run) ==
    IF ~run[2] \/ run[1] = 0 THEN Repeat(<<>>, run[1])
    ELSE Repeat(<<Update(1, <<PhysEntry(BallMid)>>)>>, run[1] - 1)
         \o <<<<Update(1, <<PhysEntry(BallIn0)>>)>>>>

RECURSIVE FramesOfRuns(_)
FramesOfRuns(rs) == IF rs = <<>> THEN <<>> ELSE RunFrames(Head(rs)) \o FramesOfRuns(Tail(rs))

\* A scoring mark at the first frame of every run of play, from frame at on
RECURSIVE MarksOfRuns(_, _)
MarksOfRuns(rs, at) ==
    IF rs = <<>> THEN <<>>
    ELSE (IF Head(rs)[2] /\ Head(rs)[1] > 0
          THEN <<[frame |-> at, value |-> "Team0Goal"]>> ELSE <<>>)
         \o MarksOfRuns(Tail(rs), at + Head(rs)[1])

InitKick ==
    /\ \E rs \in RunLists(1, KickRuns) :
          /\ frames = [FramesOfRuns(rs) EXCEPT ![1] = <<Spawn(1, BallClass)>> \o @]
          /\ marks = MarksOfRuns(rs, 0)
    /\ update_frames = <<0, NumFrames - 1>>
    /\ InitWalk

NextKick == GetPhysicsBegin \/ GetPhysicsFrame \/ FindKickoffsBegin \/ FindKickoffsStep

SpecKick == InitKick /\ [][NextKick]_vars

(* Every trace and every operation *)
Init ==
    InitInterp \/ InitGoals \/ InitPoss \/ InitFeature \/ InitEpochs \/ InitRoster \/ InitKick

Next ==
    \/ GetPhysicsBegin
    \/ GetPhysicsFrame
    \/ GetSpawnframe
    \/ GetIds
    \/ FindTeams
    \/ FindGoals
    \/ FindKickoffsBegin
    \/ FindKickoffsStep
    \/ PossIntervals
    \/ CreateFeature

Spec == Init /\ [][Next]_vars

----------------------------------------------------------------------------
(* Claims about the gap filling of get_physics *)

\* Frame f of the trace holds an update replication of the ball's actor whose
\* physics entry is usable: a real physics update of the key "ball".
RealBall(f) ==
    \E k \in 1..Len(frames[f + 1]) :
        LET replication == frames[f + 1][k] IN
        /\ replication.kind = "updated"
        /\ replication.actor_id \in Range(ball_id)
        /\ \E e \in 1..Len(replication.updated) :
               /\ replication.updated[e].id = PHYS_ID
               /\ replication.updated[e].rigid_body_state.angular_velocity # None
               /\ replication.updated[e].rigid_body_state.linear_velocity # None

\* Frames a < b are real updates of the ball with none between them.
BallGap(a, b) ==
    /\ a + 1 < b
    /\ RealBall(a)
    /\ RealBall(b)
    /\ \A f \in (a + 1)..(b - 1) : ~RealBall(f)

\* The gaps of at most maxFilled frames are filled whole, the longer ones not at all.
GapsFilledUpTo(maxFilled) ==
    pc = "ready" =>
        \A a, b \in 0..(NumFrames - 1) :
            BallGap(a, b) =>
                \A f \in (a + 1)..(b - 1) :
                    HasKey(physics, f, BallKey) <=> (b - a - 1 <= maxFilled)

\* C1: with interpolation enabled, every run of g frames without a snapshot of
\* a key between two real updates of it is back-filled whole when 1 <= g <= 4
\* and not at all when g >= 5.
C1_GapsOfOneToFourFilled == GapsFilledUpTo(4)

\* What the loop of lines 176-188 does: it looks back at most 4 frames, so it
\* fills the gaps of 1 to 3 frames and leaves a gap of 4 as it leaves one of 5.
GapsOfOneToThreeFilled == GapsFilledUpTo(3)

\* C2: every back-filled snapshot of a key equals the key's snapshot at the
\* first frame after the gap.
C2_BackFillEqualsNewerSnapshot ==
    pc = "ready" =>
        \A f \in 0..(NumFrames - 1) :
            (HasKey(physics, f, BallKey) /\ ~RealBall(f)) =>
                \E b \in (f + 1)..(NumFrames - 1) :
                    /\ RealBall(b)
                    /\ \A m \in (f + 1)..(b - 1) : ~RealBall(m)
                    /\ physics[f][BallKey] = physics[b][BallKey]

----------------------------------------------------------------------------
(* Claims about find_goals *)

\* The candidate goal frames: a ball snapshot beyond the goal line.
Candidates ==
    {f \in 0..(NumFrames - 1) :
        /\ HasKey(physics, f, BallKey)
        /\ Abs(physics[f][BallKey].location.y) > GOAL_Y}

GoalMarks == {k \in 1..Len(marks) : IsGoalMark(marks[k])}
CandidatesFrom(k) == {c \in Candidates : c >= marks[k].frame}
MarkSide(k) == IF marks[k].value = "Team1Goal" THEN 1 ELSE 0

\* C3: find_goals selects, for each scoring mark, the smallest candidate goal
\* frame >= the mark's frame, labelled with the side of a mark that selects it,
\* and returns nothing else.
C3_SmallestCandidateFromMark ==
    (pc = "ready" /\ call.op = "find_goals") =>
        /\ \A k \in GoalMarks :
              CandidatesFrom(k) # {} =>
                  \E e \in 1..Len(ret.val) : ret.val[e][1] = Min(CandidatesFrom(k))
        /\ \A e \in 1..Len(ret.val) :
              \E k \in GoalMarks :
                  /\ CandidatesFrom(k) # {}
                  /\ ret.val[e][1] = Min(CandidatesFrom(k))
                  /\ ret.val[e][2] = MarkSide(k)

\* What find_goals does keep: every frame it returns is a candidate at or after
\* a scoring mark of the side it is labelled with.
GoalNeverBeforeItsMark ==
    (pc = "ready" /\ call.op = "find_goals") =>
        \A e \in 1..Len(ret.val) :
            \E k \in GoalMarks :
                /\ ret.val[e][1] \in CandidatesFrom(k)
                /\ ret.val[e][2] = MarkSide(k)

----------------------------------------------------------------------------
(* Claims about find_kickoffs and poss_intervals *)

\* C4: find_kickoffs always terminates.  Its loop ends a scan only at a window
\* it stores and moves one window on otherwise, so the call terminates exactly
\* when, at every turn of the loop, a window to store lies at or after the
\* window of the turn.
C4_FindKickoffsTerminates == pc = "kickoffs" => KickoffFrom(window, cars_reset) # -1

\* The same as a leads-to: a call that began returns.
FindKickoffsReturns == (pc = "kickoffs") ~> (pc = "ready")

\* The goal frame before the e-th goal of find_goals, frame 0 before the first:
\* where find_kickoffs starts the scan for the kickoff that precedes the goal.
PrecedingGoal(e) == IF e = 1 THEN 0 ELSE find_goals[e - 1][1]

\* The attacking predicate of frame f for a goal of team: the ball beyond the
\* attack line or moving towards the net scored on.
Attacking(f, team) ==
    LET ball == physics[f][BallKey]
    IN IF team = 1
       THEN (-ball.location.y > ATTACK_LINE) \/ (-ball.linear_velocity.y > 0)
       ELSE (ball.location.y > ATTACK_LINE) \/ (ball.linear_velocity.y > 0)

\* The frame poss_intervals scans back to: the last frame before the goal
\* without any snapshot.
LastEmptyBefore(goal) == Max({f \in 0..(goal - 1) : ~InPhysics(f)})

\* C5: possession_intervals(threshold = 0) returns, for every goal, an interval
\* that starts at the kickoff frame find_kickoffs resolves before it, plus 1.
C5_ThresholdZeroStartsAfterKickoff ==
    (pc = "ready" /\ call.op = "poss_intervals" /\ call.threshold = <<0, 1>>) =>
        /\ ret.kind = "list"
        /\ \A e \in 1..Len(find_goals) :
              KickoffFrom(PrecedingGoal(e), FALSE) # -1 =>
                  ret.val[e][1] = KickoffFrom(PrecedingGoal(e), FALSE) + 1

\* What threshold 0 gives when the predicate holds at the goal frame and the
\* ball has a snapshot in every frame since the kickoff: the kickoff frame
\* itself, which is the frame after the last one without any snapshot.
ThresholdZeroStartsAtKickoff ==
    (pc = "ready" /\ call.op = "poss_intervals" /\ call.threshold = <<0, 1>>) =>
        /\ ret.kind = "list"
        /\ \A e \in 1..Len(find_goals) :
              LET goal == find_goals[e][1]
                  kickoff == KickoffFrom(PrecedingGoal(e), FALSE)
              IN (/\ kickoff # -1
                  /\ Attacking(goal, find_goals[e][2])
                  /\ \A f \in kickoff..goal : HasKey(physics, f, BallKey)) =>
                     ret.val[e][1] = kickoff

\* The mean of the attacking predicate over the frames f .. goal that hold a
\* ball is at least the threshold th[1] / th[2].
MeanAtLeast(f, goal, team, th) ==
    LET withBall == {g \in f..goal : HasKey(physics, g, BallKey)}
    IN Cardinality({g \in withBall : Attacking(g, team)}) * th[2]
           >= th[1] * Cardinality(withBall)

\* C6: the start of every interval is the furthest-back frame with a ball,
\* between the frame after the preceding kickoff and the goal, at which the
\* mean of the attacking predicate from the goal back to it is >= threshold.
C6_StartIsFurthestFrameAtThreshold ==
    (pc = "ready" /\ call.op = "poss_intervals" /\ ret.kind = "list") =>
        \A e \in 1..Len(find_goals) :
            LET goal == find_goals[e][1]
                reach == {f \in (LastEmptyBefore(goal) + 1)..goal :
                             /\ HasKey(physics, f, BallKey)
                             /\ MeanAtLeast(f, goal, find_goals[e][2], call.threshold)}
            IN reach # {} => ret.val[e][1] = Min(reach)

\* C7: possession_intervals fails with the invalid-threshold error for every
\* threshold < 0 or > 1, on every trace.
C7_BadThresholdAlwaysRaises ==
    (pc = "ready" /\ call.op = "poss_intervals"
       /\ (call.threshold[1] < 0 \/ call.threshold[1] > call.threshold[2])) =>
        ret = [kind |-> "ValueError", msg |-> "threshold out of bounds"]

----------------------------------------------------------------------------
(* Claims about create_feature *)

\* create_feature was called with a usable scorer on a frame of physics that
\* holds no ball.
CalledWithoutBall ==
    /\ pc = "ready"
    /\ call.op = "create_feature"
    /\ call.scorer \in {NoScorer, 0, 1}
    /\ InPhysics(call.frame)
    /\ ~HasKey(physics, call.frame, BallKey)

\* C8: build_feature on a frame without a ball snapshot gives what
\* build_feature gives on frame + 1.
C8_NoBallFallsBackToNextFrame ==
    CalledWithoutBall => ret \in create_feature(call.frame + 1, call.scorer)

\* C8 as amended: build_feature on a frame that has snapshots but none of the
\* ball returns None.
C8_NoBallReturnsNone == CalledWithoutBall => ret = [kind |-> "None"]

\* A call on a frame without a ball whose next frame would give a vector.
C8_Witness ==
    /\ CalledWithoutBall
    /\ ret = [kind |-> "None"]
    /\ \E r \in create_feature(call.frame + 1, call.scorer) : r.kind = "vector"

\* The 13 columns of an entity: av x y z, lv x y z, loc x y z, rot x y z w
Row(snap) ==
    <<snap.angular_velocity.x, snap.angular_velocity.y, snap.angular_velocity.z,
      snap.linear_velocity.x, snap.linear_velocity.y, snap.linear_velocity.z,
      snap.location.x, snap.location.y, snap.location.z,
      snap.rotation.x, snap.rotation.y, snap.rotation.z, snap.rotation.w>>

\* The b-th group of 13 values of a vector without its label (the ball is 0)
Group(body, b) == SubSeq(body, 13 * b + 1, 13 * b + 13)
ZeroRow == [k \in 1..13 |-> 0]
TeamCars(f, c) == {car \in DOMAIN physics[f] : car.c = c}

\* The three groups of a team from group `first` on: the cars of the team at
\* frame f, each once, then zero rows.
TeamLaidOut(body, f, c, first) ==
    LET cars == TeamCars(f, c)
        n == Cardinality(cars)
    IN /\ n <= 3
       /\ \A car \in cars :
             \E slot \in 0..(n - 1) : Group(body, first + slot) = Row(physics[f][car])
       /\ \A slot \in n..2 : Group(body, first + slot) = ZeroRow

\* body is the ball of frame f, team 0 and team 1
LaidOut(body, f) ==
    /\ HasKey(physics, f, BallKey)
    /\ Len(body) = 91
    /\ Group(body, 0) = Row(physics[f][BallKey])
    /\ TeamLaidOut(body, f, "0", 1)
    /\ TeamLaidOut(body, f, "1", 4)

\* C9: every vector build_feature returns has 91 values, or 92 with the scorer
\* first, laid out as the ball, the cars of team 0 padded with zeros to 3 slots,
\* and the same for team 1, of the frame or of a later one.
C9_VectorLayout ==
    (pc = "ready" /\ call.op = "create_feature" /\ ret.kind = "vector") =>
        /\ Len(ret.val) = IF call.scorer = NoScorer THEN 91 ELSE 92
        /\ call.scorer # NoScorer => ret.val[1] = call.scorer
        /\ \E f \in call.frame..(NumFrames - 1) :
              LaidOut(IF call.scorer = NoScorer THEN ret.val ELSE Tail(ret.val), f)

\* A frame with a ball and one car of team 0: the vector is the ball, the car
\* and 65 zeros.
C9_Witness ==
    /\ pc = "ready"
    /\ call.op = "create_feature"
    /\ call.scorer = NoScorer
    /\ ret.kind = "vector"
    /\ HasKey(physics, call.frame, BallKey)
    /\ Cardinality(TeamCars(call.frame, "0")) = 1
    /\ TeamCars(call.frame, "1") = {}
    /\ Group(ret.val, 0) = Row(physics[call.frame][BallKey])
    /\ \E car \in TeamCars(call.frame, "0") :
          Group(ret.val, 1) = Row(physics[call.frame][car])
    /\ \A k \in 27..91 : ret.val[k] = 0

----------------------------------------------------------------------------
(* Claims about get_spawnframe *)

\* C10: for every loaded trace and frame f >= 0, get_spawnframe(f) is an update
\* frame b <= f with no update frame in (b, f]; for f < 0 it raises.
C10_LargestBoundaryAtOrBefore ==
    (pc = "ready" /\ call.op = "get_spawnframe") =>
        IF call.frame < 0 THEN ret.kind = "ValueError"
        ELSE /\ ret.kind = "int"
             /\ ret.val \in Range(update_frames)
             /\ ret.val <= call.frame
             /\ \A b \in Range(update_frames) : ~(ret.val < b /\ b <= call.frame)

\* A frame with two boundaries at or before it and one after it.
C10_Witness ==
    /\ pc = "ready"
    /\ call.op = "get_spawnframe"
    /\ ret.kind = "int"
    /\ ret.val > 0
    /\ \E b \in Range(update_frames) : b < ret.val
    /\ \E b \in Range(update_frames) : b > call.frame

----------------------------------------------------------------------------
(* Claims about find_teams and the epochs of get_physics *)

\* Frame f holds a spawn replication of actor a.
SpawnedAt(a, f) ==
    \E k \in 1..Len(frames[f + 1]) :
        frames[f + 1][k].kind = "spawned" /\ frames[f + 1][k].actor_id = a

\* The last spawn replication of actor a in frame f spawns a car.
CarSpawnedAt(a, f) ==
    \E k \in 1..Len(frames[f + 1]) :
        /\ frames[f + 1][k] = Spawn(a, CarClass)
        /\ \A m \in (k + 1)..Len(frames[f + 1]) :
               ~(frames[f + 1][m].kind = "spawned" /\ frames[f + 1][m].actor_id = a)

\* Frame f holds a non-spawn update replication of actor a that carries
\* team-paint data with team t.
PaintedAt(a, t, f) ==
    \E k \in 1..Len(frames[f + 1]) :
        LET replication == frames[f + 1][k] IN
        /\ replication.kind = "updated"
        /\ replication.actor_id = a
        /\ \E e \in 1..Len(replication.updated) :
               replication.updated[e].id = COLOR_ID /\ replication.updated[e].team = t

\* The actors of the replications of frame f.
ActorsAt(f) == {frames[f + 1][k].actor_id : k \in 1..Len(frames[f + 1])}

\* The last frame of the epoch that starts at the update frame b.
EpochEnd(b) == Min({u \in Range(update_frames) : u > b} \cup {NumFrames}) - 1

FindTeamsReturned ==
    pc = "ready" /\ call.op = "find_teams" /\ ret.kind \in {"teams", "dict"}

\* The team mappings a returned find_teams holds, each with the epoch start
\* frame it is of: one of find_teams(spawnframe=...) and find_teams(frame=...),
\* one per update frame of find_teams().
ListedTeams ==
    IF ret.kind = "dict" THEN {<<u, ret.val[u]>> : u \in DOMAIN ret.val}
    ELSE IF call.arg = "frame" THEN {<<get_spawnframe(call.frame).val, ret.val>>}
    ELSE {<<call.frame, ret.val>>}

\* C11: find_teams of an epoch start frame never lists, in either team's list,
\* an actor that has a spawn event in that epoch; an actor is listed under team
\* t only because of a non-spawn update replication painting it with team t.
C11_NoSpawnedActorListed ==
    FindTeamsReturned =>
        \A lt \in ListedTeams : \A t \in {0, 1} : \A a \in Range(lt[2][t]) :
            /\ \A f \in lt[1]..EpochEnd(lt[1]) : ~SpawnedAt(a, f)
            /\ PaintedAt(a, t, lt[1])

\* C11 as the code has it: find_teams lists under team t exactly the actors
\* that the epoch start frame spawns as cars and that a non-spawn update
\* replication of that frame paints with team t.
C11_SpawnedCarsListedByPaint ==
    FindTeamsReturned =>
        \A lt \in ListedTeams : \A t \in {0, 1} :
            Range(lt[2][t]) =
                {a \in ActorsAt(lt[1]) : CarSpawnedAt(a, lt[1]) /\ PaintedAt(a, t, lt[1])}

\* A start frame that lists a spawned car and leaves out a painted actor that
\* it does not spawn as a car.
C11_Witness ==
    /\ FindTeamsReturned
    /\ \E lt \in ListedTeams :
          /\ \E t \in {0, 1} : \E a \in Range(lt[2][t]) : SpawnedAt(a, lt[1])
          /\ \E t \in {0, 1} : \E a \in ActorsAt(lt[1]) :
                PaintedAt(a, t, lt[1]) /\ a \notin Range(lt[2][t])

\* C12: once the walk has processed a frame, the ball ids, car ids and team
\* mapping it holds are the identity resolver's for the epoch boundary
\* get_spawnframe gives for that frame, the last boundary and a boundary list
\* of just [0] included.
C12_IdsOfTheFramesEpoch ==
    (pc \in {"walk", "ready"} /\ i > 0) =>
        LET boundary == get_spawnframe(i - 1).val
        IN /\ get_ids(BallClass, boundary) = [kind |-> "list", val |-> ball_id]
           /\ get_ids(CarClass, boundary) = [kind |-> "list", val |-> car_ids]
           /\ find_teams(boundary) = [kind |-> "teams", val |-> teams]

\* C13: every car key the walk writes at a frame carries the team under which
\* the team mapping it holds lists the key's actor; a car listed under
\* neither team is not keyed as a member of a team.
C13_CarKeyTeamIsListedTeam ==
    (pc \in {"walk", "ready"} /\ i > 0) =>
        \A key \in DOMAIN physics[i - 1] :
            key # BallKey =>
                key.actor_id \in Range(teams[IF key.c = "1" THEN 1 ELSE 0])

----------------------------------------------------------------------------
(* Claims about the entries of find_kickoffs *)

FindKickoffsReturned == pc = "ready" /\ call.op = "find_kickoffs" /\ ret.kind = "dict"

\* C14: for every entry goal_frame -> kickoff_frame that find_kickoffs returns,
\* kickoff_frame >= goal_frame + 10, frame kickoff_frame - 1 has no snapshot of
\* any entity and each of the frames kickoff_frame .. kickoff_frame + 9 has one.
C14_KickoffAfterResetAndFull ==
    FindKickoffsReturned =>
        \A e \in 1..Len(ret.val) :
            LET goal_frame == ret.val[e][1]
                kickoff_frame == ret.val[e][2]
            IN /\ kickoff_frame >= goal_frame + 10
               /\ ~InPhysics(kickoff_frame - 1)
               /\ \A f \in kickoff_frame..(kickoff_frame + 9) : InPhysics(f)

\* A kickoff found for a goal frame other than 0, later than the first full
\* window after the goal's reset could start: frames with snapshots lie
\* between the goal and the kickoff.
C14_Witness ==
    /\ FindKickoffsReturned
    /\ Len(ret.val) >= 2
    /\ \E e \in 1..Len(ret.val) :
          /\ ret.val[e][1] > 0
          /\ \E f \in (ret.val[e][1] + 1)..(ret.val[e][2] - 1) : InPhysics(f)

====
